---- MODULE Spec2Model ----
(***************************************************************************)
(* A model of the chart pipeline of scripts/ci: the chart directory        *)
(* scanner (common.py, ChartHelper), the command runner (common.py,        *)
(* CommandRunner), the change detection (detect_changes.py, ChartDetector),*)
(* the validator (validate_chart.py, ChartValidator), the packager         *)
(* (package_chart.py, ChartPackager), the publisher (publish_chart.py,     *)
(* ChartPublisher) and the main() of the four scripts.                     *)
(*                                                                         *)
(* Names, paths and registry paths are sequences of one-character strings, *)
(* so that str.startswith, str.replace and pathlib's splitting are         *)
(* computed, not assumed.  The other environment values and the git ranges *)
(* are strings.                                                            *)
(***************************************************************************)
EXTENDS Naturals, Sequences, FiniteSets, TLC

VARIABLES
    fs,          \* charts_dir: entry name -> what lies at charts_dir/name
    packages,    \* packages_dir: the set of file names in it
    registry,    \* the OCI registry: the set of <<chart name, version>> it holds
    call,        \* per pipeline invocation: the publish_chart call it is in
    last,        \* the publish_chart call completed before the current one
    calls,       \* publish_chart calls begun so far
    env,         \* os.environ: variable -> [set, value]
    repoDiff,    \* the paths git diff --name-only prints when it succeeds
    gitCache,    \* ChartDetector._git_cache: range -> set of paths
    det,         \* the last ChartDetector.detect_changes call
    detects,     \* detect_changes calls made so far
    manifest,    \* entry name -> what a Chart.yaml that is a mapping declares
    scan,        \* the last ChartHelper call and what came of it
    val,         \* the ChartValidator.validate_chart call in progress
    run,         \* the main() of a stage script: its loop over the chart names
    pkg,         \* the ChartPackager.package_chart call in progress
    outfile,     \* the file detect_changes writes and the later stages read
    gitignore,   \* charts_dir/.gitignore: whether it exists, and its lines
    helmignore,  \* chart name -> <chart>/.helmignore: whether it exists, its lines
    synced       \* the sync_helmignore runs in a row on one chart so far

diskVars == <<fs, packages, manifest>>

pubVars == <<registry, call, last, calls>>

detVars == <<env, repoDiff, gitCache, det, detects>>

stageVars == <<scan, val, run, pkg>>

textVars == <<outfile, gitignore, helmignore, synced>>

vars == <<diskVars, pubVars, detVars, stageVars, textVars>>

(***************************************************************************)
(* Bounds.                                                                 *)
(***************************************************************************)
MaxCalls == 3

MaxDetects == 2

MaxPathLen == 5

MaxPackages == 2

MaxLines == 2

MaxSyncs == 2

(***************************************************************************)
(* The file system under charts_dir.                                       *)
(***************************************************************************)
Versions == {<<"1">>, <<"2">>}

NoEntry == [kind |-> "none", yaml |-> "none", version |-> <<>>]

FsEntries ==
    {NoEntry,
     [kind |-> "file", yaml |-> "none", version |-> <<>>],
     [kind |-> "dir", yaml |-> "none", version |-> <<>>]}
    \cup {[kind |-> "chart", yaml |-> "mapping", version |-> v] : v \in Versions}
    \cup {[kind |-> "chart", yaml |-> y, version |-> <<>>] :
            y \in {"scalar", "invalid", "unreadable", "baddeps"}}

\* the names charts_dir.iterdir() may list
FsNames == {<<"c">>, <<".", "c">>, <<"c", "c">>}

\* charts_dir / "" is charts_dir itself
RootName == <<>>

\* what a charts_dir can look like: no entries unless it is a directory
FsStates ==
    {f \in [FsNames \cup {RootName} -> FsEntries] :
        /\ f[RootName].yaml \in {"none", "mapping"}
        /\ f[RootName].version # <<"2">>
        /\ f[RootName].kind \in {"none", "file"} =>
               \A n \in FsNames : f[n] = NoEntry}

EntryAt(name) == IF name \in DOMAIN fs THEN fs[name] ELSE NoEntry

\* what a Chart.yaml that parses to a mapping declares besides its version:
\* its name, and whether its dependencies list has an entry
ManifestOf(declared, deps) == [name |-> declared, dependencies |-> deps]

\* every Chart.yaml named after its directory, none with dependencies
PlainManifests == [n \in FsNames \cup {RootName} |-> ManifestOf(n, FALSE)]

\* no ChartHelper call, no validate_chart call and no main() has begun
NoScan == [op |-> "none", name |-> <<>>, outcome |-> "none", value |-> <<>>]

NoVal ==
    [pc |-> "idle", chart |-> <<>>, steps |-> <<>>, exits |-> <<>>,
     ret |-> "none", has_dependencies |-> FALSE, n |-> 0]

NoRun ==
    [pc |-> "idle", stage |-> "none", names |-> <<>>, done |-> 0,
     results |-> <<>>, failed |-> <<>>, reported |-> <<>>, exit_code |-> 0]

\* ChartPackager.package_chart has not been called
NoPkg ==
    [pc |-> "idle", chart |-> <<>>, steps |-> <<>>, exits |-> <<>>,
     ret |-> "none", version |-> <<>>, has_dependencies |-> FALSE, n |-> 0]

\* a path at which there is no file
NoFile == [exists |-> FALSE, lines |-> <<>>]

\* no output file of detect_changes.py: text is what read_text() returns
NoOutput == [exists |-> FALSE, text |-> <<>>]

\* no chart has a .helmignore
NoHelmignore == [n \in FsNames \cup {RootName} |-> NoFile]

\* sync_helmignore has not run; before is the .helmignore the last run found
NoSync == [chart |-> <<>>, runs |-> 0, before |-> NoFile]

StageIdle ==
    /\ scan = NoScan
    /\ val = NoVal
    /\ run = NoRun
    /\ pkg = NoPkg
    /\ outfile = NoOutput
    /\ gitignore = NoFile
    /\ helmignore = NoHelmignore
    /\ synced = NoSync

IsDir(name) == EntryAt(name).kind \in {"dir", "chart"}

HasChartYaml(name) == EntryAt(name).kind = "chart"

StartsWith(s, prefix) ==
    /\ Len(s) >= Len(prefix)
    /\ SubSeq(s, 1, Len(prefix)) = prefix

\* is_valid_chart without the test for empty and hidden names
IsValidChartHiddenToo(chart_name) ==
    /\ IsDir(chart_name)
    /\ HasChartYaml(chart_name)

IsValidChart(chart_name) ==
    /\ ~(chart_name = <<>> \/ StartsWith(chart_name, <<".">>))
    /\ IsDir(chart_name)
    /\ HasChartYaml(chart_name)

\* get_chart_path: the path, or ChartNotFoundError
GetChartPath(chart_name) ==
    IF ~IsDir(chart_name) THEN "ChartNotFoundError"
    ELSE IF ~HasChartYaml(chart_name) THEN "ChartNotFoundError"
    ELSE "ok"

\* read_chart_metadata ending in the exception e
ReadFailed(e) ==
    [error |-> e, version |-> <<>>, name |-> <<>>, has_dependencies |-> FALSE]

\* read_chart_metadata: the metadata, or the exception raised.  The yaml of an
\* entry says what Chart.yaml holds: "unreadable" makes open() raise OSError,
\* "invalid" makes yaml.safe_load raise YAMLError, "scalar" parses to a value
\* that is no dict, "baddeps" parses to a dict whose dependencies value is a
\* number, on which list() raises TypeError inside ChartMetadata.from_dict.
ReadChartMetadata(chart_name) ==
    IF GetChartPath(chart_name) # "ok"
    THEN ReadFailed(GetChartPath(chart_name))
    ELSE CASE EntryAt(chart_name).yaml = "unreadable" ->
                ReadFailed("ChartNotFoundError")
           [] EntryAt(chart_name).yaml = "invalid" ->
                ReadFailed("ChartValidationError")
           [] EntryAt(chart_name).yaml = "scalar" ->
                ReadFailed("ChartValidationError")
           [] EntryAt(chart_name).yaml = "baddeps" ->
                ReadFailed("TypeError")
           [] OTHER ->
                [error |-> "none", version |-> EntryAt(chart_name).version,
                 name |-> manifest[chart_name].name,
                 has_dependencies |-> manifest[chart_name].dependencies]

(***************************************************************************)
(* CommandRunner.run.  An external command either cannot be launched       *)
(* (subprocess.run raises OSError) or exits with a return code.            *)
(***************************************************************************)
ToolOutcomes ==
    {[launched |-> TRUE, returncode |-> rc] : rc \in {0, 1}}
    \cup {[launched |-> FALSE, returncode |-> 0]}

Run(outcome, check, capture) ==
    IF ~outcome.launched
    THEN [raised |-> TRUE, exit_code |-> 0]
    ELSE IF check /\ outcome.returncode # 0
         THEN IF capture
              THEN [raised |-> FALSE, exit_code |-> outcome.returncode]
              ELSE [raised |-> TRUE, exit_code |-> outcome.returncode]
         ELSE [raised |-> FALSE, exit_code |-> outcome.returncode]

\* run_helm raising on a non-zero exit
RunHelmRaising(outcome, check) == Run(outcome, TRUE, FALSE)

RunHelm(outcome, check) == Run(outcome, check, TRUE)

RunGit(outcome, check) == Run(outcome, check, TRUE)

\* what became of an external command, as the history of a call records it
ExitOf(outcome) ==
    IF ~outcome.launched THEN "oserror"
    ELSE IF outcome.returncode = 0 THEN "zero" ELSE "nonzero"

(***************************************************************************)
(* Paths and names as character sequences.                                 *)
(***************************************************************************)
PathAlphabet == {"c", "/", "."}

\* ord(ch) of the characters names and paths are written in
CharCode == " " :> 32 @@ "#" :> 35 @@ "-" :> 45 @@ "." :> 46 @@ "/" :> 47 @@ "1" :> 49 @@ "2" :> 50
            @@ "c" :> 99 @@ "g" :> 103 @@ "t" :> 116 @@ "z" :> 122

\* a < b for str
LexLess(a, b) ==
    \E k \in 0..(IF Len(a) < Len(b) THEN Len(a) ELSE Len(b)) :
        /\ SubSeq(a, 1, k) = SubSeq(b, 1, k)
        /\ \/ k = Len(a) /\ k < Len(b)
           \/ /\ k < Len(a)
              /\ k < Len(b)
              /\ CharCode[a[k + 1]] < CharCode[b[k + 1]]

\* the names in descending order
SortedReversed(S) ==
    CHOOSE s \in [1..Cardinality(S) -> S] :
        \A i, j \in 1..Cardinality(S) : i < j => LexLess(s[j], s[i])

\* sorted(names)
RECURSIVE Sorted(_)
Sorted(S) ==
    IF S = {} THEN <<>>
    ELSE LET m == CHOOSE x \in S : \A y \in S \ {x} : LexLess(x, y)
         IN  <<m>> \o Sorted(S \ {m})

\* s.split("/")
RECURSIVE SplitSlash(_)
SplitSlash(s) ==
    IF \A i \in 1..Len(s) : s[i] # "/" THEN <<s>>
    ELSE LET i == CHOOSE i \in 1..Len(s) :
                    s[i] = "/" /\ \A j \in 1..(i - 1) : s[j] # "/"
         IN  <<SubSeq(s, 1, i - 1)>> \o SplitSlash(SubSeq(s, i + 1, Len(s)))

\* Path(p).parts: pathlib drops empty and "." segments and keeps ".."; an
\* absolute path has its root as first part
PathParts(p) ==
    LET segs == SelectSeq(SplitSlash(p), LAMBDA g : g # <<>> /\ g # <<".">>)
    IN  IF StartsWith(p, <<"/">>) THEN <<<<"/">>>> \o segs ELSE segs

\* Path(p).relative_to(root): the remaining parts, or ValueError
RelativeTo(p, root) ==
    LET pp == PathParts(p)
        rp == PathParts(root)
    IN  IF Len(pp) >= Len(rp) /\ SubSeq(pp, 1, Len(rp)) = rp
        THEN [ok |-> TRUE, parts |-> SubSeq(pp, Len(rp) + 1, Len(pp))]
        ELSE [ok |-> FALSE, parts |-> <<>>]

(***************************************************************************)
(* ChartHelper.get_all_charts                                              *)
(***************************************************************************)
\* get_all_charts listing every directory, with or without a Chart.yaml
GetAllChartsEveryDir ==
    IF EntryAt(RootName).kind = "none" THEN <<>>
    ELSE Sorted({n \in FsNames : IsDir(n) /\ ~StartsWith(n, <<".">>)})

GetAllCharts ==
    IF EntryAt(RootName).kind = "none" THEN <<>>
    ELSE Sorted({n \in DOMAIN fs \ {RootName} :
                    EntryAt(n).kind # "none" /\ IsValidChart(n)})

(***************************************************************************)
(* ChartDetector                                                           *)
(***************************************************************************)
\* str(self.chart_helper.charts_dir)
ChartsDirStr == <<"c">>

\* the variables get_registry_path reads; their values are character
\* sequences, as names and paths are
RegistryEnvNames ==
    {"CI_REGISTRY_IMAGE", "REGISTRY_HOST", "REGISTRY_OWNER", "REGISTRY_PROJECT"}

EnvNames ==
    {"CI", "CI_COMMIT_TAG", "RELEASE_ALL", "CI_COMMIT_BRANCH",
     "CI_COMMIT_BEFORE_SHA", "CI_MERGE_REQUEST_TARGET_BRANCH_NAME"}
    \cup RegistryEnvNames

Unset == [set |-> FALSE, value |-> ""]

\* an unset variable of get_registry_path
UnsetPath == [set |-> FALSE, value |-> <<>>]

\* an environment with none of the variables set
NoEnv == [v \in EnvNames |-> IF v \in RegistryEnvNames THEN UnsetPath ELSE Unset]

SetTo(v) == [set |-> TRUE, value |-> v]

\* os.getenv(name, default)
Getenv(name, default) == IF env[name].set THEN env[name].value ELSE default

\* bool(os.getenv(name)): unset (None) and "" are falsy
GetenvTruthy(name) == env[name].set /\ env[name].value # ""

\* "0" * 40
Zero40 == "0000000000000000000000000000000000000000"

\* self.base_ref
BaseRef == Getenv("CI_MERGE_REQUEST_TARGET_BRANCH_NAME", "main")

\* extract_chart_names: the chart a changed path belongs to, if any
ChartNameOf(file_path) ==
    IF ~StartsWith(file_path, ChartsDirStr \o <<"/">>)
    THEN [found |-> FALSE, name |-> <<>>]
    ELSE LET rel == RelativeTo(file_path, ChartsDirStr)
         IN  IF ~rel.ok \/ Len(rel.parts) < 1
             THEN [found |-> FALSE, name |-> <<>>]
             ELSE [found |-> TRUE, name |-> rel.parts[1]]

\* extract_chart_names without the is_valid_chart filter
ExtractChartNamesUnvalidated(files) ==
    {ChartNameOf(f).name : f \in {g \in files : ChartNameOf(g).found}}

\* extract_chart_names
ExtractChartNames(files) ==
    {ChartNameOf(f).name :
        f \in {g \in files : ChartNameOf(g).found /\ IsValidChart(ChartNameOf(g).name)}}

\* fetch_base_ref that fetches outside CI too
FetchBaseRefAlways == <<"fetch">>

\* fetch_base_ref: the git commands it runs; every exception is swallowed
FetchBaseRef == IF GetenvTruthy("CI") THEN <<"fetch">> ELSE <<>>

\* get_comparison_range with the RELEASE_ALL check left out
ProcessAllTagOnly == GetenvTruthy("CI_COMMIT_TAG")

\* get_comparison_range: the two checks that make it return None
ProcessAll == GetenvTruthy("CI_COMMIT_TAG") \/ GetenvTruthy("RELEASE_ALL")

\* get_comparison_range on main/master without the all-zero check
TrunkRangeNoSentinel(before_sha) ==
    IF before_sha # "" THEN before_sha \o "..HEAD" ELSE "HEAD~1..HEAD"

\* get_comparison_range on main/master
TrunkRange(before_sha) ==
    IF before_sha # "" /\ before_sha # Zero40
    THEN before_sha \o "..HEAD"
    ELSE "HEAD~1..HEAD"

\* get_comparison_range: all = TRUE stands for the None it returns
GetComparisonRange(probe) ==
    IF ProcessAll
    THEN [all |-> TRUE, range |-> "", log |-> <<>>]
    ELSE IF Getenv("CI_COMMIT_BRANCH", "") \in {"main", "master"}
    THEN [all |-> FALSE, range |-> TrunkRange(Getenv("CI_COMMIT_BEFORE_SHA", "")),
          log |-> <<>>]
    ELSE IF ~RunGit(probe, TRUE).raised
    THEN [all |-> FALSE, range |-> "origin/" \o BaseRef \o "...HEAD",
          log |-> FetchBaseRef \o <<"rev-parse">>]
    ELSE [all |-> FALSE, range |-> "HEAD~1..HEAD",
          log |-> FetchBaseRef \o <<"rev-parse">>]

\* get_changed_files without the exit code check
GetChangedFilesIgnoringExit(comparison, diff) ==
    IF comparison \in DOMAIN gitCache
    THEN [files |-> gitCache[comparison], cache |-> gitCache, log |-> <<>>]
    ELSE [files |-> repoDiff,
          cache |-> (comparison :> repoDiff) @@ gitCache,
          log |-> <<"diff">>]

\* get_changed_files that stores nothing in the cache
GetChangedFilesCachingEmpty(comparison, diff) ==
    IF comparison \in DOMAIN gitCache
    THEN [files |-> gitCache[comparison], cache |-> gitCache, log |-> <<>>]
    ELSE IF RunGit(diff, FALSE).raised \/ RunGit(diff, FALSE).exit_code # 0
    THEN [files |-> {}, cache |-> gitCache, log |-> <<"diff">>]
    ELSE [files |-> repoDiff,
          cache |-> (comparison :> {}) @@ gitCache,
          log |-> <<"diff">>]

\* get_changed_files that stores a failed diff as well
GetChangedFilesCachingFailure(comparison, diff) ==
    IF comparison \in DOMAIN gitCache
    THEN [files |-> gitCache[comparison], cache |-> gitCache, log |-> <<>>]
    ELSE IF RunGit(diff, FALSE).raised \/ RunGit(diff, FALSE).exit_code # 0
    THEN [files |-> {}, cache |-> (comparison :> {}) @@ gitCache,
          log |-> <<"diff">>]
    ELSE [files |-> repoDiff,
          cache |-> (comparison :> repoDiff) @@ gitCache,
          log |-> <<"diff">>]

\* get_changed_files: the paths returned, the cache afterwards, the commands run
GetChangedFiles(comparison, diff) ==
    IF comparison \in DOMAIN gitCache
    THEN [files |-> gitCache[comparison], cache |-> gitCache, log |-> <<>>]
    ELSE LET r == RunGit(diff, FALSE)
         IN  IF r.raised
             THEN [files |-> {}, cache |-> gitCache, log |-> <<"diff">>]
             ELSE IF r.exit_code # 0
             THEN [files |-> {}, cache |-> gitCache, log |-> <<"diff">>]
             ELSE [files |-> repoDiff,
                   cache |-> (comparison :> repoDiff) @@ gitCache,
                   log |-> <<"diff">>]

\* what is kept of the detect_changes call before the last one
NoPrev ==
    [done |-> FALSE, all |-> FALSE, range |-> "", diffExit |-> "none",
     files |-> {}, detected |-> <<>>]

NoDetect ==
    [done |-> FALSE, all |-> FALSE, range |-> "", log |-> <<>>,
     probeExit |-> "none", probeRaised |-> FALSE,
     cachedBefore |-> FALSE, diffExit |-> "none",
     files |-> {}, chart_names |-> {}, detected |-> <<>>, prev |-> NoPrev]

\* detect_changes: what it does to the detector
DetectorStep(probe, diff) ==
    /\ detects < MaxDetects
    /\ detects' = detects + 1
    /\ LET cr == GetComparisonRange(probe)
           cf == GetChangedFiles(cr.range, diff)
           names == ExtractChartNames(cf.files)
           d == [NoDetect EXCEPT
                   !.done = TRUE, !.all = cr.all, !.range = cr.range,
                   !.probeExit = IF "rev-parse" \in {cr.log[i] : i \in DOMAIN cr.log}
                                 THEN ExitOf(probe) ELSE "none",
                   !.probeRaised = /\ "rev-parse" \in {cr.log[i] : i \in DOMAIN cr.log}
                                   /\ RunGit(probe, TRUE).raised,
                   !.cachedBefore = ~cr.all /\ cr.range \in DOMAIN gitCache,
                   !.prev = [done |-> det.done, all |-> det.all,
                             range |-> det.range, diffExit |-> det.diffExit,
                             files |-> det.files, detected |-> det.detected]]
       IN  IF cr.all
           THEN /\ det' = [d EXCEPT !.log = cr.log, !.detected = GetAllCharts]
                /\ UNCHANGED gitCache
           ELSE /\ det' = [d EXCEPT
                     !.log = cr.log \o cf.log,
                     !.diffExit = IF cf.log # <<>> THEN ExitOf(diff) ELSE "none",
                     !.files = cf.files,
                     !.chart_names = IF cf.files = {} THEN {} ELSE names,
                     !.detected = IF cf.files = {} THEN <<>>
                                  ELSE IF names = {} THEN <<>>
                                  ELSE Sorted(names)]
                /\ gitCache' = cf.cache

\* detect_changes
DetectChanges(probe, diff) ==
    /\ DetectorStep(probe, diff)
    /\ UNCHANGED <<diskVars, pubVars, env, repoDiff, stageVars, textVars>>

\* "\n".join(names)
RECURSIVE JoinNewline(_)
JoinNewline(names) ==
    IF names = <<>> THEN <<>>
    ELSE IF Len(names) = 1 THEN names[1]
    ELSE names[1] \o <<"\n">> \o JoinNewline(Tail(names))

\* main of detect_changes.py, text format: the names joined by newlines, and
\* a final newline unless that is empty
TextOutput(names) ==
    IF JoinNewline(names) # <<>> THEN JoinNewline(names) \o <<"\n">>
    ELSE JoinNewline(names)

\* main of detect_changes.py with --format text --output: detect_changes,
\* then the output file is written; the exit status is always SUCCESS
DetectMain(probe, diff) ==
    /\ DetectorStep(probe, diff)
    /\ outfile' = [exists |-> TRUE, text |-> TextOutput(det'.detected)]
    /\ UNCHANGED <<diskVars, pubVars, env, repoDiff, stageVars,
                   gitignore, helmignore, synced>>

(***************************************************************************)
(* ChartPublisher.  A publish_chart call is three steps, split where the   *)
(* code calls helm: the local checks, the existence query, the push.       *)
(***************************************************************************)
Procs == {1, 2}

PublishNames == {<<"c">>, <<".", "c">>}

NoCall ==
    [pc |-> "idle", chart |-> <<>>, version |-> <<>>, ret |-> "none",
     terminal |-> "none", failure |-> "none", queries |-> 0, pushes |-> 0,
     showExit |-> "none", pushExit |-> "none", presentAtCheck |-> FALSE,
     overPushed |-> FALSE, regAtStart |-> {}, packagedAtStart |-> FALSE,
     registry_path |-> <<>>, registry_path_clean |-> <<>>,
     checkRef |-> <<>>, pushRef |-> <<>>]

\* "oci://"
OciScheme == <<"o", "c", "i", ":", "/", "/">>

\* the defaults of REGISTRY_HOST, REGISTRY_OWNER and REGISTRY_PROJECT
DefaultHost ==
    <<"r", "e", "g", "i", "s", "t", "r", "y", ".", "e", "x", "a", "m", "p", "l",
      "e", ".", "c", "o", "m">>

DefaultOwner == <<"h", "o", "m", "e", "l", "a", "b">>

DefaultProject == <<"h", "e", "l", "m", "-", "c", "h", "a", "r", "t", "s">>

\* s.replace(old, "")
RECURSIVE RemoveAll(_, _)
RemoveAll(s, old) ==
    IF Len(s) < Len(old) THEN s
    ELSE IF SubSeq(s, 1, Len(old)) = old
         THEN RemoveAll(SubSeq(s, Len(old) + 1, Len(s)), old)
         ELSE <<Head(s)>> \o RemoveAll(Tail(s), old)

\* get_registry_path
GetRegistryPath ==
    IF env["CI_REGISTRY_IMAGE"].set /\ env["CI_REGISTRY_IMAGE"].value # <<>>
    THEN OciScheme \o env["CI_REGISTRY_IMAGE"].value
    ELSE OciScheme \o Getenv("REGISTRY_HOST", DefaultHost) \o <<"/">>
         \o Getenv("REGISTRY_OWNER", DefaultOwner) \o <<"/">>
         \o Getenv("REGISTRY_PROJECT", DefaultProject)

\* f"{chart_name}-{metadata.version}.tgz"
PackageFile(chart_name, ver) ==
    chart_name \o <<"-">> \o ver \o <<".", "t", "g", "z">>

\* publish_chart without the package check
PackageExistsUnchecked(chart_name, ver) == TRUE

\* package_file.exists()
PackageExists(chart_name, ver) == PackageFile(chart_name, ver) \in packages

\* helm show chart oci://<registry>/<name> --version <version>: it cannot exit
\* zero for a version the registry lacks; for one it holds it exits zero, or
\* non-zero when the registry cannot be reached or refuses the credentials.
ShowOutcomes(chart_name, ver) ==
    IF <<chart_name, ver>> \in registry
    THEN ToolOutcomes
    ELSE {o \in ToolOutcomes : ~(o.launched /\ o.returncode = 0)}

\* chart_version_exists with the comparison inverted
ChartVersionExistsInverted(exit_code) == exit_code # 0

\* chart_version_exists: return exit_code == 0
ChartVersionExists(exit_code) == exit_code = 0

Returned(c, value, state, why) ==
    [c EXCEPT !.pc = "done", !.ret = value, !.terminal = state, !.failure = why]

\* publish_chart up to the idempotency check: metadata, then the package file,
\* then the registry path
PublishChart(p, chart_name, rerun) ==
    /\ call[p].pc = "idle" \/ (rerun /\ call[p].pc = "done")
    /\ calls < MaxCalls
    /\ calls' = calls + 1
    /\ last' = IF call[p].pc = "done" THEN call[p] ELSE last
    /\ LET meta == ReadChartMetadata(chart_name)
           c == [NoCall EXCEPT
                   !.chart = chart_name, !.regAtStart = registry,
                   !.packagedAtStart = /\ pkg.pc = "done"
                                       /\ pkg.ret = "True"
                                       /\ pkg.chart = chart_name]
       IN  call' = [call EXCEPT ![p] =
              IF meta.error \in {"ChartNotFoundError", "ChartValidationError"}
              THEN Returned(c, "False", "Error", meta.error)
              ELSE IF meta.error # "none"
              THEN Returned(c, "raise", "Raised", meta.error)
              ELSE IF ~PackageExists(chart_name, meta.version)
                   THEN Returned([c EXCEPT !.version = meta.version],
                                 "False", "Error", "PackageNotFound")
                   ELSE [c EXCEPT
                           !.pc = "check", !.version = meta.version,
                           !.registry_path = GetRegistryPath,
                           !.registry_path_clean =
                               RemoveAll(GetRegistryPath, OciScheme)]]
    /\ UNCHANGED <<diskVars, registry, detVars, stageVars, textVars>>

\* the idempotency check of publish_chart
CheckExistence(p, outcome) ==
    /\ call[p].pc = "check"
    /\ outcome \in ShowOutcomes(call[p].chart, call[p].version)
    /\ LET r == RunHelm(outcome, FALSE)
           c == [call[p] EXCEPT
                   !.queries = @ + 1,
                   !.showExit = ExitOf(outcome),
                   !.checkRef = OciScheme \o call[p].registry_path_clean
                                \o <<"/">> \o call[p].chart,
                   !.presentAtCheck =
                       <<call[p].chart, call[p].version>> \in registry]
       IN  call' = [call EXCEPT ![p] =
              IF r.raised
              THEN Returned(c, "raise", "Raised", "OSError")
              ELSE IF ChartVersionExists(r.exit_code)
                   THEN Returned(c, "True", "SkipExisting", "none")
                   ELSE [c EXCEPT !.pc = "push"]]
    /\ UNCHANGED <<diskVars, registry, last, calls, detVars, stageVars, textVars>>

\* _push_to_registry after a push that was retried on a non-zero exit
AfterPushRetrying(c, r) ==
    IF r.raised
    THEN Returned(c, "raise", "Raised", "OSError")
    ELSE IF r.exit_code = 0
         THEN Returned(c, "True", "Published", "none")
         ELSE IF c.pushes < 2 THEN c
              ELSE Returned(c, "False", "Error", "PushFailed")

\* _push_to_registry: what the call becomes once helm push has ended
AfterPush(c, r) ==
    IF r.raised
    THEN Returned(c, "raise", "Raised", "OSError")
    ELSE IF r.exit_code = 0
         THEN Returned(c, "True", "Published", "none")
         ELSE Returned(c, "False", "Error", "PushFailed")

\* _push_to_registry
PushToRegistry(p, outcome) ==
    /\ call[p].pc = "push"
    /\ outcome \in ToolOutcomes
    /\ LET r == RunHelm(outcome, FALSE)
           nv == <<call[p].chart, call[p].version>>
           c == [call[p] EXCEPT
                   !.pushes = @ + 1,
                   !.pushExit = ExitOf(outcome),
                   !.pushRef = call[p].registry_path,
                   !.overPushed = @ \/ (outcome.launched /\ nv \in registry)]
       IN  /\ call' = [call EXCEPT ![p] = AfterPush(c, r)]
           /\ registry' = IF ~r.raised /\ r.exit_code = 0
                          THEN registry \cup {nv}
                          ELSE registry
    /\ UNCHANGED <<diskVars, last, calls, detVars, stageVars, textVars>>

(***************************************************************************)
(* One pipeline invocation publishing again and again (re-runs).           *)
(***************************************************************************)
PubFs ==
    {f \in FsStates :
        /\ f[RootName].kind = "dir"
        /\ f[<<"c", "c">>] = NoEntry
        /\ f[<<"c">>].yaml # "baddeps"
        /\ f[<<".", "c">>].yaml \in {"none", "mapping"}
        /\ f[<<".", "c">>].version # <<"2">>}

PubPackages ==
    SUBSET {PackageFile(<<"c">>, <<"1">>), PackageFile(<<"c">>, <<"2">>),
            PackageFile(<<".", "c">>, <<"1">>)}

PubRegistries == SUBSET {<<<<"c">>, <<"1">>>>, <<<<".", "c">>, <<"1">>>>}

Init ==
    /\ fs \in PubFs
    /\ packages \in PubPackages
    /\ registry \in PubRegistries
    /\ call = [p \in Procs |-> NoCall]
    /\ last = NoCall
    /\ calls = 0
    /\ env = NoEnv
    /\ repoDiff = {}
    /\ gitCache = <<>>
    /\ det = NoDetect
    /\ detects = 0
    /\ manifest = PlainManifests
    /\ StageIdle

Next ==
    \/ \E n \in PublishNames : PublishChart(1, n, TRUE)
    \/ \E o \in ToolOutcomes : CheckExistence(1, o)
    \/ \E o \in ToolOutcomes : PushToRegistry(1, o)

Spec == Init /\ [][Next]_vars

(***************************************************************************)
(* One invocation publishing c under every setting of the registry         *)
(* variables.                                                              *)
(***************************************************************************)
RegistryEnvs ==
    {[v \in EnvNames \ RegistryEnvNames |-> Unset]
     @@ ("CI_REGISTRY_IMAGE" :> image) @@ ("REGISTRY_HOST" :> host)
     @@ ("REGISTRY_OWNER" :> owner) @@ ("REGISTRY_PROJECT" :> project) :
        image \in {UnsetPath, SetTo(<<>>), SetTo(<<"r">>),
                   SetTo(OciScheme \o <<"r">>)},
        host \in {UnsetPath, SetTo(<<"h">>)},
        owner \in {UnsetPath, SetTo(<<"o">>)},
        project \in {UnsetPath, SetTo(<<"p">>)}}

InitRegistry ==
    /\ fs \in {f \in PubFs : f[<<"c">>].yaml = "mapping" /\ f[RootName].yaml = "none"
                              /\ f[<<".", "c">>] = NoEntry}
    /\ packages = {PackageFile(<<"c">>, <<"1">>), PackageFile(<<"c">>, <<"2">>)}
    /\ registry \in PubRegistries
    /\ call = [p \in Procs |-> NoCall]
    /\ last = NoCall
    /\ calls = 0
    /\ env \in RegistryEnvs
    /\ repoDiff = {}
    /\ gitCache = <<>>
    /\ det = NoDetect
    /\ detects = 0
    /\ manifest = PlainManifests
    /\ StageIdle

SpecRegistry == InitRegistry /\ [][Next]_vars

(***************************************************************************)
(* Two pipeline invocations, each publishing once, their steps interleaved.*)
(***************************************************************************)
NextConcurrent ==
    \/ \E p \in Procs, n \in PublishNames : PublishChart(p, n, FALSE)
    \/ \E p \in Procs, o \in ToolOutcomes : CheckExistence(p, o)
    \/ \E p \in Procs, o \in ToolOutcomes : PushToRegistry(p, o)

SpecConcurrent == Init /\ [][NextConcurrent]_vars

(***************************************************************************)
(* One detector, its detect_changes called again and again.                *)
(***************************************************************************)
DetEnvs ==
    {("CI" :> ci) @@ ("CI_COMMIT_TAG" :> tag) @@ ("RELEASE_ALL" :> rel)
     @@ ("CI_COMMIT_BRANCH" :> branch) @@ ("CI_COMMIT_BEFORE_SHA" :> before)
     @@ ("CI_MERGE_REQUEST_TARGET_BRANCH_NAME" :> base)
     @@ [v \in RegistryEnvNames |-> UnsetPath] :
        ci \in {Unset, SetTo("true")},
        tag \in {Unset, SetTo(""), SetTo("v1.0.0")},
        rel \in {Unset, SetTo("true")},
        branch \in {Unset, SetTo("main"), SetTo("master"), SetTo("feature")},
        before \in {Unset, SetTo(""), SetTo(Zero40), SetTo("abc123")},
        base \in {Unset, SetTo("develop")}}

DetFs ==
    {f \in FsStates :
        /\ f[RootName].kind \in {"none", "dir"}
        /\ \A n \in FsNames : f[n].yaml \in {"none", "mapping"}
        /\ \A n \in FsNames : f[n].version # <<"2">>
        /\ f[RootName].kind = "dir" =>
               /\ f[<<"c">>].kind \in {"dir", "chart"}
               /\ f[<<".", "c">>].kind = "chart"
               /\ f[<<"c", "c">>].kind \in {"none", "chart"}}

\* what git diff --name-only may print: c/c/c, c/c/.c, c/cc/c, c/.c/c, cc/c
\* and .
DiffOutputs ==
    {{},
     {<<"c", "/", "c", "/", "c">>, <<"c", "/", "c", "/", ".", "c">>,
      <<"c", "/", "c", "c", "/", "c">>, <<".">>},
     {<<"c", "/", ".", "c", "/", "c">>, <<"c", "c", "/", "c">>}}

InitDetect ==
    /\ fs \in DetFs
    /\ packages = {}
    /\ registry = {}
    /\ call = [p \in Procs |-> NoCall]
    /\ last = NoCall
    /\ calls = 0
    /\ env \in DetEnvs
    /\ repoDiff \in DiffOutputs
    /\ gitCache = <<>>
    /\ det = NoDetect
    /\ detects = 0
    /\ manifest = PlainManifests
    /\ StageIdle

NextDetect == \E probe \in ToolOutcomes, diff \in ToolOutcomes : DetectChanges(probe, diff)

SpecDetect == InitDetect /\ [][NextDetect]_vars

(***************************************************************************)
(* extract_chart_names applied to a set of paths.                          *)
(***************************************************************************)
Paths == UNION {[1..k -> PathAlphabet] : k \in 1..MaxPathLen}

\* the sets of changed paths tried: none, every path alone, and every path
\* beside one of the paths of DiffOutputs
ExtractInputs ==
    {{}} \cup {{p} : p \in Paths}
         \cup {{p, q} : p \in Paths, q \in UNION DiffOutputs}
         \cup DiffOutputs

ExtractFs ==
    {f \in FsStates :
        /\ f[RootName].kind = "dir"
        /\ \A n \in FsNames : f[n].yaml \in {"none", "mapping"}
        /\ \A n \in FsNames : f[n].version # <<"2">>
        /\ \A n \in FsNames \ {<<"c">>} : f[n].kind \in {"dir", "chart"}}

InitExtract ==
    /\ fs \in ExtractFs
    /\ packages = {}
    /\ registry = {}
    /\ call = [p \in Procs |-> NoCall]
    /\ last = NoCall
    /\ calls = 0
    /\ env = NoEnv
    /\ repoDiff \in ExtractInputs
    /\ gitCache = <<>>
    /\ det = NoDetect
    /\ detects = 0
    /\ manifest = PlainManifests
    /\ StageIdle

\* chart_names = detector.extract_chart_names(files)
ExtractCall ==
    /\ ~det.done
    /\ det' = [NoDetect EXCEPT !.done = TRUE, !.files = repoDiff,
                               !.chart_names = ExtractChartNames(repoDiff)]
    /\ UNCHANGED <<diskVars, pubVars, env, repoDiff, gitCache, detects, stageVars, textVars>>

NextExtract == ExtractCall

SpecExtract == InitExtract /\ [][NextExtract]_vars

(***************************************************************************)
(* ChartValidator.  A validate_chart call is split where the code calls    *)
(* helm: the metadata read, lint, dependency update, template.             *)
(***************************************************************************)
\* class ExitCode
SUCCESS == 0

FAILURE == 1

VALIDATION_ERROR == 2

NOT_FOUND == 3

\* the exit status of the interpreter when an exception leaves main()
UncaughtExit == 1

\* validate_chart after lint, were the dependency update unconditional
AfterLintAlwaysUpdating(has_dependencies) == "dependency"

\* validate_chart after lint: step 2 runs only if metadata.has_dependencies
AfterLint(has_dependencies) ==
    IF has_dependencies THEN "dependency" ELSE "template"

\* _run_lint, _update_dependencies, _test_rendering and the test of their
\* result in validate_chart: next is the step that follows a zero exit
StepEnded(v, outcome, step, next) ==
    LET r == RunHelm(outcome, FALSE)
        w == [v EXCEPT !.steps = Append(@, step),
                       !.exits = Append(@, ExitOf(outcome))]
    IN  IF r.raised THEN [w EXCEPT !.pc = "done", !.ret = "raise"]
        ELSE IF r.exit_code # 0 THEN [w EXCEPT !.pc = "done", !.ret = "False"]
        ELSE IF next = "return" THEN [w EXCEPT !.pc = "done", !.ret = "True"]
        ELSE [w EXCEPT !.pc = next]

\* validate_chart up to step 1: the chart path and the metadata
ValidateChart(chart_name) ==
    /\ val.pc \in {"idle", "done"}
    /\ val.n < MaxCalls
    /\ LET meta == ReadChartMetadata(chart_name)
           v == [NoVal EXCEPT !.chart = chart_name, !.n = val.n + 1]
       IN  val' =
              IF meta.error \in {"ChartNotFoundError", "ChartValidationError"}
              THEN [v EXCEPT !.pc = "done", !.ret = "False"]
              ELSE IF meta.error # "none"
              THEN [v EXCEPT !.pc = "done", !.ret = "raise"]
              ELSE [v EXCEPT !.pc = "lint",
                             !.has_dependencies = meta.has_dependencies]
    /\ UNCHANGED <<diskVars, pubVars, detVars, scan, run, pkg, textVars>>

\* step 1: helm lint
RunLint(outcome) ==
    /\ val.pc = "lint"
    /\ val' = StepEnded(val, outcome, "lint", AfterLint(val.has_dependencies))
    /\ UNCHANGED <<diskVars, pubVars, detVars, scan, run, pkg, textVars>>

\* step 2: helm dependency update
UpdateDependencies(outcome) ==
    /\ val.pc = "dependency"
    /\ val' = StepEnded(val, outcome, "dependency", "template")
    /\ UNCHANGED <<diskVars, pubVars, detVars, scan, run, pkg, textVars>>

\* step 3: helm template
TestRendering(outcome) ==
    /\ val.pc = "template"
    /\ val' = StepEnded(val, outcome, "template", "return")
    /\ UNCHANGED <<diskVars, pubVars, detVars, scan, run, pkg, textVars>>

\* the charts validated: c and cc, missing, well-formed or malformed
ValNames == {<<"c">>, <<"c", "c">>}

ValFs ==
    {f \in FsStates :
        /\ f[RootName] = [kind |-> "dir", yaml |-> "none", version |-> <<>>]
        /\ f[<<".", "c">>] = NoEntry
        /\ f[<<"c">>].kind \in {"none", "dir", "chart"}
        /\ f[<<"c">>].yaml \in {"none", "mapping", "invalid", "baddeps"}
        /\ f[<<"c">>].version # <<"2">>
        /\ f[<<"c", "c">>].yaml \in {"none", "mapping"}
        /\ f[<<"c", "c">>].kind \in {"none", "chart"}
        /\ f[<<"c", "c">>].version # <<"2">>}

\* Chart.yaml of c named c or cc, with or without dependencies; Chart.yaml of
\* cc named cc, with or without dependencies
ValManifests ==
    {[PlainManifests EXCEPT
         ![<<"c">>] = ManifestOf(declared, deps),
         ![<<"c", "c">>] = ManifestOf(<<"c", "c">>, deps2)] :
        declared \in ValNames, deps \in BOOLEAN, deps2 \in BOOLEAN}

InitValidate ==
    /\ fs \in ValFs
    /\ packages = {}
    /\ registry = {}
    /\ call = [p \in Procs |-> NoCall]
    /\ last = NoCall
    /\ calls = 0
    /\ env = NoEnv
    /\ repoDiff = {}
    /\ gitCache = <<>>
    /\ det = NoDetect
    /\ detects = 0
    /\ manifest \in ValManifests
    /\ \A n \in ValNames : fs[n].yaml # "mapping" => manifest[n] = PlainManifests[n]
    /\ StageIdle

NextValidate ==
    \/ \E n \in ValNames : ValidateChart(n)
    \/ \E o \in ToolOutcomes : RunLint(o)
    \/ \E o \in ToolOutcomes : UpdateDependencies(o)
    \/ \E o \in ToolOutcomes : TestRendering(o)

SpecValidate == InitValidate /\ [][NextValidate]_vars

(***************************************************************************)
(* ChartPackager.  sync_helmignore works on the lines of two files, each   *)
(* line a sequence of characters without its line end.  A package_chart    *)
(* call is split where the code calls helm: the metadata read with the    *)
(* .helmignore sync, the dependency build, helm package with the test for  *)
(* the package file.                                                       *)
(***************************************************************************)
\* ch.isspace() for the characters of the ignore files
IsSpace(ch) == ch = " "

\* s.strip()
RECURSIVE Strip(_)
Strip(s) ==
    IF s = <<>> THEN s
    ELSE IF IsSpace(s[1]) THEN Strip(Tail(s))
    ELSE IF IsSpace(s[Len(s)]) THEN Strip(SubSeq(s, 1, Len(s) - 1))
    ELSE s

\* {line.strip() for line in f if line.strip() and not line.startswith("#")}
IgnorePatterns(file) ==
    {Strip(file.lines[i]) :
        i \in {j \in DOMAIN file.lines :
                 /\ Strip(file.lines[j]) # <<>>
                 /\ ~StartsWith(file.lines[j], <<"#">>)}}

\* sync_helmignore: the chart's .helmignore when it returns
SyncHelmignore(chart_name) ==
    IF ~gitignore.exists THEN helmignore[chart_name]
    ELSE LET existing_patterns ==
                 IF helmignore[chart_name].exists
                 THEN IgnorePatterns(helmignore[chart_name])
                 ELSE {}
             gitignore_patterns == IgnorePatterns(gitignore)
         IN  [exists |-> TRUE,
              lines |-> Sorted(existing_patterns \cup gitignore_patterns)]

\* the run of sync_helmignore on a chart is counted
Synced(chart_name) ==
    [chart |-> chart_name,
     runs |-> IF synced.chart = chart_name THEN synced.runs + 1 ELSE 1,
     before |-> helmignore[chart_name]]

\* packager.sync_helmignore(chart_path), called on its own
SyncHelmignoreCall(chart_name) ==
    /\ synced.runs < MaxSyncs
    /\ helmignore' = [helmignore EXCEPT ![chart_name] = SyncHelmignore(chart_name)]
    /\ synced' = Synced(chart_name)
    /\ UNCHANGED <<diskVars, pubVars, detVars, stageVars, outfile, gitignore>>

\* package_chart up to the dependency build: the chart path, the metadata,
\* sync_helmignore and create_directory
PackageChart(chart_name) ==
    /\ pkg.pc \in {"idle", "done"}
    /\ pkg.n < MaxPackages
    /\ LET meta == ReadChartMetadata(chart_name)
           k == [NoPkg EXCEPT !.chart = chart_name, !.n = pkg.n + 1]
       IN  IF meta.error \in {"ChartNotFoundError", "ChartValidationError"}
           THEN /\ pkg' = [k EXCEPT !.pc = "done", !.ret = "False"]
                /\ UNCHANGED <<helmignore, synced>>
           ELSE IF meta.error # "none"
           THEN /\ pkg' = [k EXCEPT !.pc = "done", !.ret = "raise"]
                /\ UNCHANGED <<helmignore, synced>>
           ELSE /\ pkg' = [k EXCEPT
                     !.pc = IF meta.has_dependencies THEN "dependency"
                            ELSE "package",
                     !.version = meta.version,
                     !.has_dependencies = meta.has_dependencies]
                /\ helmignore' = [helmignore EXCEPT
                                    ![chart_name] = SyncHelmignore(chart_name)]
                /\ synced' = Synced(chart_name)
    /\ UNCHANGED <<diskVars, pubVars, detVars, scan, val, run, outfile, gitignore>>

\* _build_dependencies: helm dependency build
BuildDependencies(outcome) ==
    /\ pkg.pc = "dependency"
    /\ pkg' = StepEnded(pkg, outcome, "dependency", "package")
    /\ UNCHANGED <<diskVars, pubVars, detVars, scan, val, run, textVars>>

\* the name of the archive helm package writes: that of the chart Chart.yaml
\* declares, with the version
HelmPackageOutput(chart_name, version) ==
    PackageFile(manifest[chart_name].name, version)

\* package_chart without the test for the package file
PackageFileWrittenUnchecked(chart_name, version, written) == TRUE

\* package_file.exists() once helm package has exited zero
PackageFileWritten(chart_name, version, written) ==
    PackageFile(chart_name, version) \in written

\* _package_chart (helm package, which writes the archive when it exits zero)
\* and the test that packages_dir/<chart_name>-<version>.tgz exists
HelmPackage(outcome) ==
    /\ pkg.pc = "package"
    /\ LET r == RunHelm(outcome, FALSE)
           w == [pkg EXCEPT !.steps = Append(@, "package"),
                            !.exits = Append(@, ExitOf(outcome)),
                            !.pc = "done"]
           written == packages \cup {HelmPackageOutput(pkg.chart, pkg.version)}
       IN  IF r.raised
           THEN pkg' = [w EXCEPT !.ret = "raise"] /\ UNCHANGED packages
           ELSE IF r.exit_code # 0
           THEN pkg' = [w EXCEPT !.ret = "False"] /\ UNCHANGED packages
           ELSE /\ packages' = written
                /\ pkg' = [w EXCEPT
                             !.ret = IF PackageFileWritten(pkg.chart,
                                                           pkg.version, written)
                                     THEN "True" ELSE "False"]
    /\ UNCHANGED <<fs, manifest, pubVars, detVars, scan, val, run, textVars>>

(***************************************************************************)
(* main() of publish_chart.py, validate_chart.py, package_chart.py: the     *)
(* chart names, the report and the exit status.  The call of an iteration  *)
(* (publish, validate or package) takes the steps modelled above.          *)
(***************************************************************************)
Stages == {"publish", "validate", "package"}

\* chart_names: what the command line or the input file names
NameLists ==
    {<<>>} \cup {<<a>> : a \in ValNames} \cup {<<a, b>> : a \in ValNames, b \in ValNames}

\* the calls the stage has begun, and the call of the current iteration
CallsBegun ==
    IF run.stage = "publish" THEN calls
    ELSE IF run.stage = "validate" THEN val.n
    ELSE pkg.n

CallEnded ==
    IF run.stage = "publish" THEN call[1].pc = "done"
    ELSE IF run.stage = "validate" THEN val.pc = "done"
    ELSE pkg.pc = "done"

CallResult ==
    IF run.stage = "publish" THEN call[1].ret
    ELSE IF run.stage = "validate" THEN val.ret
    ELSE pkg.ret

\* a loop that takes the names from the end of the list
NextNameFromEnd == run.names[Len(run.names) - run.done]

\* for chart_name in chart_names: the name of the iteration
NextName == run.names[run.done + 1]

\* main up to the loop: chart_names determined, publisher or validator built
Main(stage, names) ==
    /\ run.pc = "idle"
    /\ run' = [NoRun EXCEPT !.pc = "loop", !.stage = stage, !.names = names]
    /\ UNCHANGED <<diskVars, pubVars, detVars, scan, val, pkg, textVars>>

\* for chart_name in chart_names: publisher.publish_chart(chart_name)
MainPublishChart ==
    /\ run.pc = "loop"
    /\ run.stage = "publish"
    /\ run.done < Len(run.names)
    /\ calls = run.done
    /\ PublishChart(1, NextName, TRUE)

\* for chart_name in chart_names: validator.validate_chart(chart_name)
MainValidateChart ==
    /\ run.pc = "loop"
    /\ run.stage = "validate"
    /\ run.done < Len(run.names)
    /\ val.n = run.done
    /\ ValidateChart(NextName)

\* for chart_name in chart_names: packager.package_chart(chart_name)
MainPackageChart ==
    /\ run.pc = "loop"
    /\ run.stage = "package"
    /\ run.done < Len(run.names)
    /\ pkg.n = run.done
    /\ PackageChart(NextName)

\* the call of the iteration has ended: a False result is appended to
\* failed_charts; an exception leaves main(), which reports nothing
MainCollect ==
    /\ run.pc = "loop"
    /\ CallsBegun = run.done + 1
    /\ CallEnded
    /\ run' =
          IF CallResult = "raise"
          THEN [run EXCEPT !.pc = "exited",
                           !.results = Append(@, CallResult),
                           !.exit_code = UncaughtExit]
          ELSE [run EXCEPT !.done = @ + 1,
                           !.results = Append(@, CallResult),
                           !.failed = IF CallResult = "False"
                                      THEN Append(@, run.names[run.done + 1])
                                      ELSE @]
    /\ UNCHANGED <<diskVars, pubVars, detVars, scan, val, pkg, textVars>>

\* after the loop: the failed charts are logged and the exit status chosen
MainReport ==
    /\ run.pc = "loop"
    /\ run.done = Len(run.names)
    /\ run' = [run EXCEPT !.pc = "exited",
                          !.reported = run.failed,
                          !.exit_code = IF run.failed # <<>> THEN FAILURE
                                        ELSE SUCCESS]
    /\ UNCHANGED <<diskVars, pubVars, detVars, scan, val, pkg, textVars>>

MainFs ==
    {f \in ValFs : f[<<"c">>].kind # "dir" /\ f[<<"c">>].yaml # "baddeps"}

MainPackages ==
    SUBSET {PackageFile(<<"c">>, <<"1">>), PackageFile(<<"c", "c">>, <<"1">>)}

MainRegistries == SUBSET {<<<<"c">>, <<"1">>>>}

InitMain ==
    /\ fs \in MainFs
    /\ packages \in MainPackages
    /\ registry \in MainRegistries
    /\ call = [p \in Procs |-> NoCall]
    /\ last = NoCall
    /\ calls = 0
    /\ env = NoEnv
    /\ repoDiff = {}
    /\ gitCache = <<>>
    /\ det = NoDetect
    /\ detects = 0
    /\ manifest \in ValManifests
    /\ \A n \in ValNames : fs[n].yaml # "mapping" => manifest[n] = PlainManifests[n]
    /\ StageIdle

NextMain ==
    \/ \E stage \in Stages, names \in NameLists : Main(stage, names)
    \/ MainPublishChart
    \/ \E o \in ToolOutcomes : CheckExistence(1, o)
    \/ \E o \in ToolOutcomes : PushToRegistry(1, o)
    \/ MainValidateChart
    \/ \E o \in ToolOutcomes : RunLint(o)
    \/ \E o \in ToolOutcomes : UpdateDependencies(o)
    \/ \E o \in ToolOutcomes : TestRendering(o)
    \/ MainPackageChart
    \/ \E o \in ToolOutcomes : BuildDependencies(o)
    \/ \E o \in ToolOutcomes : HelmPackage(o)
    \/ MainCollect
    \/ MainReport

SpecMain == InitMain /\ [][NextMain]_vars

\* packaging then publishing: an older archive of c lying in packages_dir or
\* not, a .gitignore with one pattern
PkgPackages == SUBSET {PackageFile(<<"c">>, <<"1">>)}

PkgGitignore == [exists |-> TRUE, lines |-> << <<"c">> >>]

InitPackage ==
    /\ fs \in MainFs
    /\ packages \in PkgPackages
    /\ registry = {}
    /\ call = [p \in Procs |-> NoCall]
    /\ last = NoCall
    /\ calls = 0
    /\ env = NoEnv
    /\ repoDiff = {}
    /\ gitCache = <<>>
    /\ det = NoDetect
    /\ detects = 0
    /\ manifest \in ValManifests
    /\ \A n \in ValNames : fs[n].yaml # "mapping" => manifest[n] = PlainManifests[n]
    /\ scan = NoScan
    /\ val = NoVal
    /\ run = NoRun
    /\ pkg = NoPkg
    /\ outfile = NoOutput
    /\ gitignore = PkgGitignore
    /\ helmignore = NoHelmignore
    /\ synced = NoSync

\* the stages run one after the other: the package_chart calls, then one
\* publish_chart call
NextPackage ==
    \/ \E n \in ValNames : call[1].pc = "idle" /\ PackageChart(n)
    \/ \E o \in ToolOutcomes : BuildDependencies(o)
    \/ \E o \in ToolOutcomes : HelmPackage(o)
    \/ \E n \in ValNames : pkg.pc = "done" /\ PublishChart(1, n, FALSE)
    \/ \E o \in ToolOutcomes : CheckExistence(1, o)
    \/ \E o \in ToolOutcomes : PushToRegistry(1, o)

SpecPackage == InitPackage /\ [][NextPackage]_vars

\* sync_helmignore run again and again on chart c: the lines of .gitignore
\* and of c/.helmignore are blank, of spaces only, a pattern, a comment or an
\* indented comment
IgnoreLines == {<<>>, <<" ">>, <<"c">>, <<"#", "c">>, <<" ", "#", "c">>}

IgnoreFiles ==
    {NoFile} \cup
    {[exists |-> TRUE, lines |-> l] :
        l \in UNION {[1..n -> IgnoreLines] : n \in 0..MaxLines}}

InitHelmignore ==
    /\ fs \in {f \in MainFs : f[<<"c">>].kind = "chart" /\ f[<<"c", "c">>] = NoEntry}
    /\ packages = {}
    /\ registry = {}
    /\ call = [p \in Procs |-> NoCall]
    /\ last = NoCall
    /\ calls = 0
    /\ env = NoEnv
    /\ repoDiff = {}
    /\ gitCache = <<>>
    /\ det = NoDetect
    /\ detects = 0
    /\ manifest = PlainManifests
    /\ scan = NoScan
    /\ val = NoVal
    /\ run = NoRun
    /\ pkg = NoPkg
    /\ outfile = NoOutput
    /\ gitignore \in IgnoreFiles
    /\ helmignore \in {[NoHelmignore EXCEPT ![<<"c">>] = f] : f \in IgnoreFiles}
    /\ synced = NoSync

NextHelmignore == SyncHelmignoreCall(<<"c">>)

SpecHelmignore == InitHelmignore /\ [][NextHelmignore]_vars

(***************************************************************************)
(* The pipeline: detect_changes.py writes the names to a file, a later     *)
(* stage is run with --input-file on that file.                            *)
(***************************************************************************)
\* text.splitlines(), "\n" being the only line boundary in the texts
RECURSIVE SplitLines(_)
SplitLines(text) ==
    IF text = <<>> THEN <<>>
    ELSE IF \A i \in 1..Len(text) : text[i] # "\n" THEN <<text>>
    ELSE LET i == CHOOSE i \in 1..Len(text) :
                    text[i] = "\n" /\ \A j \in 1..(i - 1) : text[j] # "\n"
         IN  <<SubSeq(text, 1, i - 1)>>
             \o SplitLines(SubSeq(text, i + 1, Len(text)))

\* [line.strip() for line in text.splitlines() if line.strip()]
ReadNames(text) ==
    LET lines == SplitLines(text)
    IN  SelectSeq([i \in DOMAIN lines |-> Strip(lines[i])],
                  LAMBDA l : l # <<>>)

\* main of a stage up to the loop, run with --input-file: a missing file ends
\* it with FAILURE, a file of size 0 with SUCCESS
MainInputFile(stage) ==
    /\ run.pc = "idle"
    /\ run' =
          IF ~outfile.exists
          THEN [NoRun EXCEPT !.pc = "exited", !.stage = stage,
                             !.exit_code = FAILURE]
          ELSE IF Len(outfile.text) = 0
          THEN [NoRun EXCEPT !.pc = "exited", !.stage = stage,
                             !.exit_code = SUCCESS]
          ELSE [NoRun EXCEPT !.pc = "loop", !.stage = stage,
                             !.names = ReadNames(outfile.text)]
    /\ UNCHANGED <<diskVars, pubVars, detVars, scan, val, pkg, textVars>>

\* a directory name that ends in a space
SpacedName == <<"c", " ">>

\* charts c, cc and "c " present or not; Chart.yaml of cc has dependencies
PipeFs ==
    {[f EXCEPT ![<<"c", "c">>] = c2] @@ (SpacedName :> c3) :
        f \in {g \in MainFs : g[<<"c">>].yaml \in {"none", "mapping"}},
        c2 \in {NoEntry, [kind |-> "chart", yaml |-> "mapping", version |-> <<"1">>]},
        c3 \in {NoEntry, [kind |-> "chart", yaml |-> "mapping", version |-> <<"1">>]}}

PipeManifests ==
    [PlainManifests EXCEPT ![<<"c", "c">>] = ManifestOf(<<"c", "c">>, TRUE)]
    @@ (SpacedName :> ManifestOf(SpacedName, FALSE))

\* a run on main with a before revision, or with RELEASE_ALL
PipeEnvs ==
    {e \in DetEnvs :
        /\ e["CI"] = SetTo("true")
        /\ e["CI_COMMIT_TAG"] = Unset
        /\ e["CI_COMMIT_BRANCH"] = SetTo("main")
        /\ e["CI_COMMIT_BEFORE_SHA"] = SetTo("abc123")
        /\ e["CI_MERGE_REQUEST_TARGET_BRANCH_NAME"] = Unset}

\* what git diff prints: nothing, c/c/c and c/cc/c, or c/c/c and c/c /c
PipeDiffs ==
    {{},
     {<<"c", "/", "c", "/", "c">>, <<"c", "/", "c", "c", "/", "c">>},
     {<<"c", "/", "c", "/", "c">>, <<"c", "/", "c", " ", "/", "c">>}}

InitPipeline ==
    /\ fs \in PipeFs
    /\ packages \in PkgPackages
    /\ registry = {}
    /\ call = [p \in Procs |-> NoCall]
    /\ last = NoCall
    /\ calls = 0
    /\ env \in PipeEnvs
    /\ repoDiff \in PipeDiffs
    /\ gitCache = <<>>
    /\ det = NoDetect
    /\ detects = 0
    /\ manifest = PipeManifests
    /\ scan = NoScan
    /\ val = NoVal
    /\ run = NoRun
    /\ pkg = NoPkg
    /\ outfile = NoOutput
    /\ gitignore = NoFile
    /\ helmignore = NoHelmignore @@ (SpacedName :> NoFile)
    /\ synced = NoSync

\* the stages run one after the other: detect_changes.py is not run while a
\* later stage is
NextPipeline ==
    \/ \E probe \in ToolOutcomes, diff \in ToolOutcomes :
           run.pc = "idle" /\ DetectMain(probe, diff)
    \/ \E stage \in Stages : MainInputFile(stage)
    \/ MainPublishChart
    \/ \E o \in ToolOutcomes : CheckExistence(1, o)
    \/ \E o \in ToolOutcomes : PushToRegistry(1, o)
    \/ MainValidateChart
    \/ \E o \in ToolOutcomes : RunLint(o)
    \/ \E o \in ToolOutcomes : UpdateDependencies(o)
    \/ \E o \in ToolOutcomes : TestRendering(o)
    \/ MainPackageChart
    \/ \E o \in ToolOutcomes : BuildDependencies(o)
    \/ \E o \in ToolOutcomes : HelmPackage(o)
    \/ MainCollect
    \/ MainReport

SpecPipeline == InitPipeline /\ [][NextPipeline]_vars

(***************************************************************************)
(* ChartHelper called on a charts_dir: is_valid_chart, get_all_charts and  *)
(* read_chart_metadata, one call after another.                            *)
(***************************************************************************)
\* the names passed in: the empty name and the names charts_dir may hold
ScanNames == FsNames \cup {RootName}

\* a charts_dir that is missing or a directory, with entries of every kind
ScanFs == {f \in FsStates : f[RootName].kind # "file"}

InitScan ==
    /\ fs \in ScanFs
    /\ packages = {}
    /\ registry = {}
    /\ call = [p \in Procs |-> NoCall]
    /\ last = NoCall
    /\ calls = 0
    /\ env = NoEnv
    /\ repoDiff = {}
    /\ gitCache = <<>>
    /\ det = NoDetect
    /\ detects = 0
    /\ manifest = PlainManifests
    /\ StageIdle

\* helper.is_valid_chart(name)
IsValidChartCall(name) ==
    /\ scan' = [op |-> "is_valid_chart", name |-> name,
                outcome |-> "returned", value |-> IsValidChart(name)]
    /\ UNCHANGED <<diskVars, pubVars, detVars, val, run, pkg, textVars>>

\* helper.get_all_charts()
GetAllChartsCall ==
    /\ scan' = [op |-> "get_all_charts", name |-> <<>>,
                outcome |-> "returned", value |-> GetAllCharts]
    /\ UNCHANGED <<diskVars, pubVars, detVars, val, run, pkg, textVars>>

\* helper.read_chart_metadata(name)
ReadChartMetadataCall(name) ==
    /\ LET m == ReadChartMetadata(name)
       IN  scan' = [op |-> "read_chart_metadata", name |-> name,
                    outcome |-> IF m.error = "none" THEN "returned" ELSE m.error,
                    value |-> m.version]
    /\ UNCHANGED <<diskVars, pubVars, detVars, val, run, pkg, textVars>>

NextScan ==
    \/ \E n \in ScanNames : IsValidChartCall(n)
    \/ GetAllChartsCall
    \/ \E n \in ScanNames : ReadChartMetadataCall(n)

SpecScan == InitScan /\ [][NextScan]_vars

(***************************************************************************)
(* The scanner's properties.                                               *)
(***************************************************************************)

\* C13: is_valid_chart returns, and never raises; it returns True exactly for
\* a name that is non-empty, does not begin with ".", and names a directory of
\* charts_dir that holds a Chart.yaml.  It is False for every hidden name and
\* for every directory without a Chart.yaml.
C13_IsValidChartExact ==
    scan.op = "is_valid_chart" =>
        /\ scan.outcome = "returned"
        /\ scan.value = (/\ scan.name # <<>>
                         /\ scan.name[1] # "."
                         /\ fs[scan.name].kind = "chart")
        /\ (scan.name # <<>> /\ scan.name[1] = ".") => scan.value = FALSE
        /\ fs[scan.name].kind = "dir" => scan.value = FALSE

C13_Witness ==
    /\ scan.op = "is_valid_chart"
    /\ scan.name = <<".", "c">>
    /\ fs[<<".", "c">>].kind = "chart"
    /\ fs[<<".", "c">>].yaml = "mapping"
    /\ scan.value = FALSE

\* C14: get_all_charts returns, in strictly ascending str order, exactly the
\* entries of charts_dir that are non-hidden directories holding a Chart.yaml,
\* and the empty list when charts_dir does not exist.
C14_GetAllChartsExact ==
    scan.op = "get_all_charts" =>
        /\ \A i, j \in DOMAIN scan.value :
              i < j => LexLess(scan.value[i], scan.value[j])
        /\ {scan.value[i] : i \in DOMAIN scan.value} =
              {n \in FsNames : n[1] # "." /\ fs[n].kind = "chart"}
        /\ fs[RootName].kind = "none" => scan.value = <<>>

C14_Witness ==
    /\ scan.op = "get_all_charts"
    /\ fs[<<".", "c">>].kind = "chart"
    /\ fs[<<"c">>].kind = "dir"
    /\ fs[<<"c", "c">>].kind = "chart"
    /\ scan.value = << <<"c", "c">> >>

\* C15: read_chart_metadata raises ChartNotFoundError when the directory or
\* its Chart.yaml is missing, raises ChartValidationError when Chart.yaml does
\* not parse to a mapping, returns the metadata when it parses to a mapping,
\* and ends in no other way.
C15_ReadMetadataOutcomes ==
    scan.op = "read_chart_metadata" =>
        LET e == fs[scan.name]
        IN  /\ scan.outcome \in
                  {"returned", "ChartNotFoundError", "ChartValidationError"}
            /\ e.kind # "chart" => scan.outcome = "ChartNotFoundError"
            /\ (e.kind = "chart" /\ e.yaml \in {"invalid", "scalar"}) =>
                  scan.outcome = "ChartValidationError"
            /\ (e.kind = "chart" /\ e.yaml \in {"mapping", "baddeps"}) =>
                  scan.outcome = "returned"

(***************************************************************************)
(* The validator's properties.                                             *)
(***************************************************************************)

\* C18: a validate_chart call that reaches helm runs lint, then dependency
\* update if and only if Chart.yaml declares dependencies, then template; a
\* step that exits non-zero is the last one run and the call returns False;
\* the call returns True exactly when it has ended with every step of the
\* order run and exited zero (2 helm runs without dependencies, 3 with, 1 on
\* a lint failure), whatever name Chart.yaml declares.
C18_ValidateStepsInOrder ==
    LET order == IF manifest[val.chart].dependencies
                 THEN <<"lint", "dependency", "template">>
                 ELSE <<"lint", "template">>
        k == Len(val.steps)
    IN  k >= 1 =>
            /\ k <= Len(order)
            /\ val.steps = SubSeq(order, 1, k)
            /\ Len(val.exits) = k
            /\ \A i \in 1..k :
                  val.exits[i] = "nonzero" =>
                      /\ i = k
                      /\ val.pc = "done"
                      /\ val.ret = "False"
            /\ \A i \in 1..(k - 1) : val.exits[i] = "zero"
            /\ val.ret = "True" <=>
                  /\ val.pc = "done"
                  /\ k = Len(order)
                  /\ \A i \in 1..k : val.exits[i] = "zero"
            /\ (val.pc = "done" /\ val.ret # "raise") =>
                  (val.ret = "True" <=> \A i \in 1..k : val.exits[i] = "zero")

C18_Witness ==
    /\ val.pc = "done"
    /\ val.ret = "True"
    /\ val.chart = <<"c">>
    /\ manifest[<<"c">>] = ManifestOf(<<"c", "c">>, TRUE)
    /\ val.steps = <<"lint", "dependency", "template">>

(***************************************************************************)
(* The properties of the stage scripts.                                    *)
(***************************************************************************)

\* C16: a publish run that has exited has reported the names whose
\* publish_chart call failed, in order, and its exit status is non-zero if and
\* only if that list is non-empty.
C16_ExitNonZeroIffFailures ==
    LET failedUpTo[i \in 0..Len(run.results)] ==
            IF i = 0 THEN <<>>
            ELSE IF run.results[i] = "False"
                 THEN Append(failedUpTo[i - 1], run.names[i])
                 ELSE failedUpTo[i - 1]
    IN  (run.pc = "exited" /\ run.stage = "publish") =>
        /\ run.failed = failedUpTo[Len(run.results)]
        /\ run.reported = run.failed
        /\ run.exit_code # SUCCESS <=> run.failed # <<>>

\* C17: a stage run over charts that are all missing (no directory, or no
\* Chart.yaml in it) exits with NOT_FOUND, and a run over charts whose
\* Chart.yaml is all malformed exits with VALIDATION_ERROR.
C17_ExitCodeConvention ==
    LET named == {run.names[i] : i \in DOMAIN run.names}
    IN  (run.pc = "exited" /\ named # {}) =>
            /\ (\A n \in named : fs[n].kind # "chart") =>
                  run.exit_code = NOT_FOUND
            /\ (\A n \in named : fs[n].kind = "chart" /\ fs[n].yaml = "invalid") =>
                  run.exit_code = VALIDATION_ERROR

(***************************************************************************)
(* The publisher's properties.                                             *)
(***************************************************************************)

\* C1: across any sequence of publish_chart calls and any outcomes of the
\* registry tools, no call runs helm push for a name:version that the registry
\* held when the call began.
C1_NeverPushesExistingVersion ==
    \A p \in Procs :
        call[p].pushExit \in {"zero", "nonzero"} =>
            <<call[p].chart, call[p].version>> \notin call[p].regAtStart

\* C2: two invocations publishing the same name:version concurrently against
\* a registry that lacked it, each existence query answered while the version
\* was still absent: the two do not both push it.
C2_ConcurrentPublishPushesOnce ==
    \A p, q \in Procs :
        (/\ p # q
         /\ call[p].chart = call[q].chart
         /\ call[p].version = call[q].version
         /\ <<call[p].chart, call[p].version>> \notin call[p].regAtStart
         /\ <<call[q].chart, call[q].version>> \notin call[q].regAtStart
         /\ ~call[p].presentAtCheck
         /\ ~call[q].presentAtCheck)
        => ~(call[p].pushExit = "zero" /\ call[q].pushExit = "zero")

\* C3: a call whose existence query exits zero returns True in SkipExisting,
\* invokes no push and leaves the registry as it was when the call began.
C3_ExistingVersionIsSkipped ==
    \A p \in Procs :
        call[p].showExit = "zero" =>
            /\ call[p].pc = "done"
            /\ call[p].ret = "True"
            /\ call[p].terminal = "SkipExisting"
            /\ call[p].pushes = 0
            /\ registry = call[p].regAtStart

C3_Witness ==
    /\ call[1].showExit = "zero"
    /\ call[1].pc = "done"
    /\ call[1].version \in Versions

\* C4: a call that follows a call which pushed the same name and version
\* successfully returns True in SkipExisting without invoking push.
C4_SecondPublishSkips ==
    (/\ call[1].pc = "done"
     /\ call[1].terminal # "Raised"
     /\ last.terminal = "Published"
     /\ last.chart = call[1].chart
     /\ last.version = call[1].version)
    => (/\ call[1].ret = "True"
        /\ call[1].terminal = "SkipExisting"
        /\ call[1].pushes = 0
        /\ last.pushes + call[1].pushes = 1)

\* C5: a call for a chart whose metadata cannot be read, or whose package file
\* is absent, returns False in Error with no existence query and no push.
C5_LocalFailureTouchesNoRegistry ==
    \A p \in Procs :
        LET c == call[p]
            e == EntryAt(c.chart)
            unreadable == e.kind # "chart" \/ e.yaml # "mapping"
            unpackaged == PackageFile(c.chart, e.version) \notin packages
        IN  (c.pc # "idle" /\ (unreadable \/ unpackaged)) =>
                /\ c.pc = "done"
                /\ c.ret = "False"
                /\ c.terminal = "Error"
                /\ c.queries = 0
                /\ c.pushes = 0
                /\ c.showExit = "none"

C5_Witness ==
    /\ call[1].pc = "done"
    /\ call[1].failure = "PackageNotFound"
    /\ last.failure = "ChartValidationError"

C19_RegistryPathResolution ==
    LET image == env["CI_REGISTRY_IMAGE"]
        part(name, default) == IF env[name].set THEN env[name].value ELSE default
        resolved ==
            IF image.set /\ image.value # <<>>
            THEN image.value
            ELSE part("REGISTRY_HOST", DefaultHost) \o <<"/">>
                 \o part("REGISTRY_OWNER", DefaultOwner) \o <<"/">>
                 \o part("REGISTRY_PROJECT", DefaultProject)
    IN  \A p \in Procs :
            call[p].pushExit \in {"zero", "nonzero"} =>
                /\ call[p].pushRef = OciScheme \o resolved
                /\ call[p].checkRef = call[p].pushRef \o <<"/">> \o call[p].chart

\* C20: an existence check that exits non-zero raises nothing and takes the
\* call to the push; a push that exits non-zero ends the call with False.
C20_SoftCheckHardPush ==
    \A p \in Procs :
        /\ call[p].showExit = "nonzero" =>
              \/ call[p].pc = "push" /\ call[p].pushes = 0
              \/ call[p].pc = "done" /\ call[p].pushes = 1
                                     /\ call[p].pushExit # "none"
        /\ call[p].pushExit = "nonzero" =>
              /\ call[p].pc = "done"
              /\ call[p].ret = "False"
              /\ call[p].terminal = "Error"
              /\ call[p].failure = "PushFailed"

C20_Witness ==
    /\ call[1].showExit = "nonzero"
    /\ call[1].pushExit = "nonzero"
    /\ call[1].ret = "False"
    /\ <<call[1].chart, call[1].version>> \notin registry

(***************************************************************************)
(* The resolver's properties.                                              *)
(***************************************************************************)

\* C7: on a feature branch (no tag, no RELEASE_ALL, branch not main/master)
\* the range is origin/<base>...HEAD when the rev-parse probe exits zero and
\* HEAD~1..HEAD when it exits non-zero.
C7_UnresolvableBaseFallsBack ==
    (/\ det.done
     /\ ~(env["CI_COMMIT_TAG"].set /\ env["CI_COMMIT_TAG"].value # "")
     /\ ~(env["RELEASE_ALL"].set /\ env["RELEASE_ALL"].value # "")
     /\ ~(/\ env["CI_COMMIT_BRANCH"].set
          /\ env["CI_COMMIT_BRANCH"].value \in {"main", "master"}))
    => /\ ~det.all
       /\ det.probeExit = "zero" =>
              det.range = (IF env["CI_MERGE_REQUEST_TARGET_BRANCH_NAME"].set
                           THEN "origin/develop...HEAD"
                           ELSE "origin/main...HEAD")
       /\ det.probeExit = "nonzero" => det.range = "HEAD~1..HEAD"

\* C8: with CI_COMMIT_TAG or RELEASE_ALL set to a non-empty value, whatever the
\* branch, the before revision and the base branch are, the resolver returns
\* the All sentinel without running git, and detect_changes returns every
\* valid chart of charts_dir.
C8_TagOrReleaseAllProcessesAll ==
    LET valid == {n \in FsNames : fs[n].kind = "chart" /\ n[1] # "."}
    IN  (/\ det.done
         /\ \/ env["CI_COMMIT_TAG"].set /\ env["CI_COMMIT_TAG"].value # ""
            \/ env["RELEASE_ALL"].set /\ env["RELEASE_ALL"].value # "")
        => /\ det.all
           /\ det.log = <<>>
           /\ {det.detected[i] : i \in DOMAIN det.detected} = valid
           /\ Len(det.detected) = Cardinality(valid)

C8_Witness ==
    /\ det.done
    /\ ~env["CI_COMMIT_TAG"].set
    /\ env["RELEASE_ALL"] = SetTo("true")
    /\ env["CI_COMMIT_BRANCH"] = SetTo("main")
    /\ env["CI_COMMIT_BEFORE_SHA"] = SetTo("abc123")
    /\ Len(det.detected) = 2

\* C9: on main or master, with no tag and no RELEASE_ALL, the range is
\* <before>..HEAD when CI_COMMIT_BEFORE_SHA is set, non-empty and not forty
\* zeros, and HEAD~1..HEAD otherwise.
C9_TrunkRange ==
    LET before == env["CI_COMMIT_BEFORE_SHA"]
    IN  (/\ det.done
         /\ ~(env["CI_COMMIT_TAG"].set /\ env["CI_COMMIT_TAG"].value # "")
         /\ ~(env["RELEASE_ALL"].set /\ env["RELEASE_ALL"].value # "")
         /\ env["CI_COMMIT_BRANCH"].set
         /\ env["CI_COMMIT_BRANCH"].value \in {"main", "master"})
        => /\ ~det.all
           /\ det.range =
                 (IF before.set /\ before.value = "abc123" THEN "abc123..HEAD"
                  ELSE "HEAD~1..HEAD")

C9_Witness ==
    /\ det.done
    /\ env["CI_COMMIT_BRANCH"] = SetTo("master")
    /\ env["CI_COMMIT_BEFORE_SHA"] = SetTo(Zero40)
    /\ det.range = "HEAD~1..HEAD"
    /\ det.log = <<"diff">>

\* C11: the list detect_changes returns is strictly ascending in str order,
\* hence sorted and free of duplicates, whether it comes from get_all_charts,
\* from a diff with changes or from an empty diff, and however many changed
\* files lie in one chart.
C11_DetectedSortedNoDuplicates ==
    det.done =>
        \A i, j \in DOMAIN det.detected :
            i < j => LexLess(det.detected[i], det.detected[j])

C11_Witness ==
    /\ det.done
    /\ ~det.all
    /\ {<<"c", "/", "c", "/", "c">>, <<"c", "/", "c", "/", ".", "c">>}
           \subseteq det.files
    /\ det.detected = << <<"c">>, <<"c", "c">> >>

\* C12: when git diff exits non-zero or cannot be run, get_changed_files
\* returns the empty set and detect_changes returns the empty list.
C12_DiffFailureYieldsEmpty ==
    (det.done /\ det.diffExit \in {"nonzero", "oserror"}) =>
        /\ det.files = {}
        /\ det.chart_names = {}
        /\ det.detected = <<>>

C12_Witness ==
    /\ det.done
    /\ det.diffExit = "nonzero"
    /\ repoDiff # {}
    /\ fs[<<"c">>].kind = "chart"
    /\ det.detected = <<>>

(***************************************************************************)
(* The extractor's properties.                                             *)
(***************************************************************************)

\* C10: extract_chart_names returns exactly the valid chart names n for which
\* some changed path starts with "<root>/" and has n as its first segment
\* below the root (empty and "." segments skipped, as pathlib does); a path
\* that does not start with "<root>/" contributes nothing.
C10_ExtractIsFirstSegmentOfValidCharts ==
    LET root == <<"c", "/">>
        valid(n) == fs[n].kind = "chart" /\ n[1] # "."
        skipped(f, i) ==
            \A j \in 3..i :
                \/ f[j] = "/"
                \/ f[j] = "." /\ f[j - 1] = "/" /\ j < i /\ f[j + 1] = "/"
        under(f, n) ==
            /\ Len(f) >= 2
            /\ SubSeq(f, 1, 2) = root
            /\ \E i \in 2..Len(f) :
                  /\ f[i] = "/"
                  /\ skipped(f, i)
                  /\ i + Len(n) <= Len(f)
                  /\ SubSeq(f, i + 1, i + Len(n)) = n
                  /\ i + Len(n) = Len(f) \/ f[i + Len(n) + 1] = "/"
    IN  det.done =>
            det.chart_names =
                {n \in FsNames : valid(n) /\ \E f \in det.files : under(f, n)}

C10_Witness ==
    /\ det.done
    /\ det.files = {<<"c", "c", "/", "c">>, <<"c", "/", "c", "/", "c">>}
    /\ fs[<<"c", "c">>].kind = "chart"
    /\ det.chart_names = {<<"c">>}

(***************************************************************************)
(* The detector over repeated calls.                                       *)
(***************************************************************************)

C24_FetchBeforeProbe ==
    (/\ det.done
     /\ ~(env["CI_COMMIT_TAG"].set /\ env["CI_COMMIT_TAG"].value # "")
     /\ ~(env["RELEASE_ALL"].set /\ env["RELEASE_ALL"].value # "")
     /\ ~(/\ env["CI_COMMIT_BRANCH"].set
          /\ env["CI_COMMIT_BRANCH"].value \in {"main", "master"}))
    => /\ Len(det.log) >= 2
       /\ det.log[1] = "fetch"
       /\ det.log[2] = "rev-parse"
       /\ \A i \in DOMAIN det.log : i # 1 => det.log[i] # "fetch"

\* C24 amended: on the feature-branch path a detect_changes call runs exactly
\* one git fetch, before the rev-parse probe, when the CI variable is set to a
\* non-empty value; when CI is unset it runs no fetch at all and the rev-parse
\* probe is its first git command.
C24_FetchInCIBeforeProbe ==
    (/\ det.done
     /\ ~(env["CI_COMMIT_TAG"].set /\ env["CI_COMMIT_TAG"].value # "")
     /\ ~(env["RELEASE_ALL"].set /\ env["RELEASE_ALL"].value # "")
     /\ ~(/\ env["CI_COMMIT_BRANCH"].set
          /\ env["CI_COMMIT_BRANCH"].value \in {"main", "master"}))
    => IF env["CI"].set /\ env["CI"].value # ""
       THEN /\ Len(det.log) >= 2
            /\ det.log[1] = "fetch"
            /\ det.log[2] = "rev-parse"
            /\ \A i \in DOMAIN det.log : i # 1 => det.log[i] # "fetch"
       ELSE /\ Len(det.log) >= 1
            /\ det.log[1] = "rev-parse"
            /\ \A i \in DOMAIN det.log : det.log[i] # "fetch"

C24_Witness ==
    /\ det.done
    /\ env["CI"] = SetTo("true")
    /\ env["CI_COMMIT_BRANCH"] = SetTo("feature")
    /\ ~env["CI_COMMIT_TAG"].set
    /\ ~env["RELEASE_ALL"].set
    /\ det.log = <<"fetch", "rev-parse", "diff">>

\* C25: a run_git call with check=True (the rev-parse probe of
\* get_comparison_range) whose command exits non-zero raises.
C25_CheckedRunRaisesOnNonZero ==
    (det.done /\ det.probeExit = "nonzero") => det.probeRaised

\* C26: every entry of the diff cache is the set of paths of a git diff that
\* exited zero.  A call that finds its range cached runs no diff and returns
\* the entry, which an earlier call for that range stored; a call that does not
\* find it runs the diff, and the range is cached afterwards exactly if that
\* diff exited zero, so that a failed diff is run again by the next call.
C26_CacheHoldsSuccessfulDiffs ==
    /\ \A r \in DOMAIN gitCache : gitCache[r] = repoDiff
    /\ DOMAIN gitCache # {} => det.done /\ ~det.all
    /\ (det.done /\ det.all) => det.diffExit = "none"
    /\ (det.done /\ ~det.all /\ det.cachedBefore) =>
           /\ det.diffExit = "none"
           /\ \A i \in DOMAIN det.log : det.log[i] # "diff"
           /\ det.range \in DOMAIN gitCache
           /\ det.files = gitCache[det.range]
           /\ det.prev.done
    /\ (det.done /\ ~det.all /\ ~det.cachedBefore) =>
           /\ det.diffExit # "none"
           /\ det.log[Len(det.log)] = "diff"
           /\ det.range \in DOMAIN gitCache <=> det.diffExit = "zero"
           /\ (det.prev.done /\ det.prev.range = det.range) =>
                  det.prev.diffExit \in {"nonzero", "oserror"}

C26_Witness ==
    /\ detects = 2
    /\ det.prev.range = det.range
    /\ det.prev.diffExit = "nonzero"
    /\ ~det.cachedBefore
    /\ det.diffExit = "zero"
    /\ repoDiff # {}
    /\ gitCache = (det.range :> repoDiff)

(***************************************************************************)
(* The publisher and the scanner.                                          *)
(***************************************************************************)

\* C27: a publish_chart call that has queried the registry or pushed to it was
\* made for a name that is_valid_chart accepts: a non-empty name that does not
\* start with "." and names a directory holding Chart.yaml.
C27_RegistryOnlyForValidNames ==
    \A p \in Procs :
        (call[p].queries > 0 \/ call[p].pushes > 0) =>
            /\ call[p].chart # <<>>
            /\ call[p].chart[1] # "."
            /\ IsValidChart(call[p].chart)

(***************************************************************************)
(* Packaging, then publishing.                                             *)
(***************************************************************************)

\* C28: a publish_chart(name) call that begins when the last package_chart
\* call was for the same name and returned True, nothing having been removed
\* from packages_dir nor Chart.yaml changed since, does not end on a missing
\* chart, an invalid chart or a missing package file: it goes on to the
\* registry existence check.
C28_PublishAfterPackageReachesCheck ==
    call[1].packagedAtStart =>
        /\ call[1].failure \notin
               {"PackageNotFound", "ChartNotFoundError", "ChartValidationError"}
        /\ call[1].pc = "check" \/ call[1].queries > 0
        /\ PackageFile(call[1].chart, call[1].version) \in packages

C28_Witness ==
    /\ call[1].packagedAtStart
    /\ call[1].chart = <<"c">>
    /\ pkg.chart = <<"c">>
    /\ pkg.steps = <<"dependency", "package">>
    /\ manifest[<<"c">>].name = <<"c">>
    /\ call[1].regAtStart = {}
    /\ call[1].queries = 1
    /\ call[1].pushes = 1
    /\ call[1].ret = "True"

(***************************************************************************)
(* The .helmignore sync.                                                   *)
(***************************************************************************)

\* C30: a second run of sync_helmignore on a chart, .gitignore being what it
\* was, leaves the chart's .helmignore as the first run left it, whatever
\* pattern, blank, comment and indented-comment lines the two files held.
C30_SyncIdempotent ==
    (synced.runs >= 2 /\ synced.chart = <<"c">>) =>
        helmignore[<<"c">>] = synced.before

(***************************************************************************)
(* The loop of main() over the chart names.                                *)
(***************************************************************************)

\* C21: a main() that has exited has processed every entry of its name list:
\* each entry has a result, whatever became of the entries before it.
C21_EveryEntryProcessed ==
    run.pc = "exited" => Len(run.results) = Len(run.names)

\* C22 as stated: the charts a publish run has processed so far were taken in
\* ascending str order of their names.
C22_ProcessedInSortedOrder ==
    (run.stage = "publish" /\ run.pc # "idle") =>
        \A i, j \in 1..Len(run.results) :
            i < j => ~LexLess(run.names[j], run.names[i])

\* C22 amended: a publish run takes the charts in the order of the name list
\* it was given: its k-th publish_chart call is for the k-th name, and begins
\* when the first k-1 names have their results.  The order is therefore the
\* ascending one whenever the list is sorted, as the list detect_changes
\* returns is.
C22_ProcessedInListOrder ==
    (run.stage = "publish" /\ run.pc # "idle") =>
        /\ calls <= Len(run.names)
        /\ calls >= 1 => call[1].chart = run.names[calls]
        /\ Len(run.results) \in {calls, calls - 1}
        /\ (\A i, j \in 1..Len(run.names) :
                i < j => LexLess(run.names[i], run.names[j]))
           => (calls >= 2 => LexLess(run.names[calls - 1], call[1].chart))

C22_Witness ==
    /\ run.stage = "publish"
    /\ run.names = << <<"c">>, <<"c", "c">> >>
    /\ run.results = <<"False">>
    /\ calls = 2
    /\ call[1].chart = <<"c", "c">>
    /\ call[1].pc = "push"

(***************************************************************************)
(* From the detect output to the name list of a later stage.               *)
(***************************************************************************)

\* C29: a stage run with --input-file on the file detect_changes.py wrote in
\* text format has as its name list the list detect_changes returned, in the
\* same order; when that list is empty the file is empty and the stage has
\* exited with SUCCESS without a result, a report or a call of publish_chart,
\* validate_chart or package_chart.
C29_InputListIsDetectOutput ==
    (run.pc # "idle" /\ outfile.exists) =>
        /\ det.detected # <<>> => run.names = det.detected
        /\ det.detected = <<>> =>
               /\ outfile.text = <<>>
               /\ run.pc = "exited"
               /\ run.exit_code = SUCCESS
               /\ run.names = <<>>
               /\ run.results = <<>>
               /\ calls = 0
               /\ val.n = 0
               /\ pkg.n = 0

====
